---- MODULE Spec2Model ----
(***************************************************************************)
(* kubeswitch: the session lifecycle of the context / namespace switcher.  *)
(*                                                                         *)
(* State: the files on disk (kube configs and the session directory), the  *)
(* tool's own settings (its configuration file), the environment of the    *)
(* shell that runs in each terminal, the number of shells the tool has     *)
(* started in each terminal, the directories that exist, and the clock.    *)
(* One action per command of the tool (context, namespace, purge); each    *)
(* action is the whole run of one invocation, from start-up configuration  *)
(* (setupKubeEnvVar) to exit or process replacement.  The variable `last`  *)
(* records what the last invocation saw and did.  A second specification   *)
(* (SpecConcurrent) runs invocations step by step, so that they overlap;   *)
(* `procs` holds the invocations in flight there.                          *)
(***************************************************************************)
EXTENDS Integers, Sequences, FiniteSets, TLC

VARIABLES files, settings, termEnv, spawned, now, last, procs, dirs

vars == <<files, settings, termEnv, spawned, now, last, procs, dirs>>

-----------------------------------------------------------------------------
(* Bounds of the model.                                                    *)

\* The clock stops here; every invocation takes one tick.
MaxTime == 3

\* Ticks in one day (the unit Purge counts in).
DayTicks == 1

\* Largest retention value given to purge.
MaxDays == 1

\* Terminals (login shells) the user works in.
NumTerms == 1

Terms == 1..NumTerms

\* Longest marker value tried on IsActive.
MaxMarkerLen == 4

\* Most items in a namespace snapshot handed to the methods (SpecListing).
MaxItems == 3

\* The two invocations that may be in flight at once (SpecConcurrent).
Procs == {1, 2}

-----------------------------------------------------------------------------
(* Strings.  Go compares strings bytewise; names are ranked by their       *)
(* position in StringOrder, which lists them in that order.                *)

StringOrder == <<"", "a", "b", "bad", "c1", "ghost", "n1", "n2", "u1", "zz">>

Rank(s) == CHOOSE i \in 1..Len(StringOrder) : StringOrder[i] = s

StrLess(x, y) == Rank(x) < Rank(y)

\* strings.ToUpper on a string given as its sequence of characters.
UpperChar(c) ==
    CASE c = "t" -> "T" [] c = "r" -> "R" [] c = "u" -> "U" [] c = "e" -> "E"
      [] c = "f" -> "F" [] c = "a" -> "A" [] c = "l" -> "L" [] c = "s" -> "S"
      [] c = "y" -> "Y"
      [] OTHER -> c

ToUpper(s) == [i \in 1..Len(s) |-> UpperChar(s[i])]

RECURSIVE Insert(_, _)
Insert(x, s) ==
    IF s = <<>> THEN <<x>>
    ELSE IF StrLess(s[1], x) THEN <<s[1]>> \o Insert(x, Tail(s))
    ELSE <<x>> \o s

\* sort.Strings
RECURSIVE SortStrings(_)
SortStrings(s) == IF s = <<>> THEN <<>> ELSE Insert(s[1], SortStrings(Tail(s)))

\* The elements of a set in some order (the order a Go map is ranged in).
RECURSIVE SetToSeq(_)
SetToSeq(S) ==
    IF S = {} THEN <<>>
    ELSE LET x == CHOOSE y \in S : TRUE IN <<x>> \o SetToSeq(S \ {x})

Range(s) == {s[i] : i \in 1..Len(s)}

-----------------------------------------------------------------------------
(* Paths and the environment.                                              *)

kubeDir == "home"

sessionDir == "tmp"

\* <home>/.kube/config, the default configuration source.
DefaultConfig == <<kubeDir, 0>>

\* A second kube config the user may list.
OtherConfig == <<kubeDir, 1>>

\* The empty string used as a path.
NoPath == <<"", 0>>

\* fmt.Sprintf("%s/config_%d", sessionDir(), now.UnixNano())
SessionPath(t) == <<sessionDir, t>>

EnvVarActive == "active"

EnvVarConfig == "kubeconfig"

TRUE_ == <<"T", "R", "U", "E">>

\* A variable of the environment: unset, or set to a string.
Unset == [set |-> FALSE, val |-> <<>>]

Val(v) == [set |-> TRUE, val |-> v]

\* os.Getenv: an unset variable reads as the empty string.
Getenv(env, name) == IF env[name].set THEN env[name].val ELSE <<>>

\* os.Setenv
Setenv(env, name, v) == [env EXCEPT ![name] = Val(v)]

\* IsActive comparing the marker as it is spelled.
IsActive_Exact(env) ==
    IF Getenv(env, EnvVarActive) = TRUE_ THEN TRUE ELSE FALSE

IsActive(env) ==
    LET a == ToUpper(Getenv(env, EnvVarActive))
    IN  IF a = TRUE_ THEN TRUE ELSE FALSE

-----------------------------------------------------------------------------
(* The kube configuration: api.Config in memory, the v1 document on disk.  *)

EmptyMap == [x \in {} |-> x]

\* api.NewConfig()
NewConfig ==
    [contexts |-> EmptyMap, clusters |-> EmptyMap, users |-> EmptyMap,
     currentContext |-> ""]

\* The named entries of a map, sorted by name (the v1 list form).
NamedList(m) ==
    LET names == SortStrings(SetToSeq(DOMAIN m))
    IN  [i \in 1..Len(names) |-> [name |-> names[i], value |-> m[names[i]]]]

\* The map of a v1 list; a later entry of the same name replaces an earlier.
RECURSIVE NamedMap(_)
NamedMap(l) ==
    IF l = <<>> THEN EmptyMap
    ELSE LET n == Len(l)
         IN  (l[n].name :> l[n].value) @@ NamedMap(SubSeq(l, 1, n - 1))

\* Serialization that leaves the users out.
Encode_OmitsUsers(cfg) ==
    [contexts |-> NamedList(cfg.contexts), clusters |-> NamedList(cfg.clusters),
     users |-> <<>>, currentContext |-> cfg.currentContext]

\* The document clientcmd.WriteToFile serializes.
Encode(cfg) ==
    [contexts |-> NamedList(cfg.contexts), clusters |-> NamedList(cfg.clusters),
     users |-> NamedList(cfg.users), currentContext |-> cfg.currentContext]

\* The configuration clientcmd loads from a document.
Decode(doc) ==
    [contexts |-> NamedMap(doc.contexts), clusters |-> NamedMap(doc.clusters),
     users |-> NamedMap(doc.users), currentContext |-> doc.currentContext]

\* Merge in which a later file replaces what an earlier one set.
RECURSIVE MergeConfigs_LastWins(_)
MergeConfigs_LastWins(cfgs) ==
    IF cfgs = <<>> THEN NewConfig
    ELSE LET n == Len(cfgs)
             final == cfgs[n]
             rest  == MergeConfigs_LastWins(SubSeq(cfgs, 1, n - 1))
         IN  [contexts |-> final.contexts @@ rest.contexts,
              clusters |-> final.clusters @@ rest.clusters,
              users    |-> final.users @@ rest.users,
              currentContext |-> IF final.currentContext # ""
                                 THEN final.currentContext
                                 ELSE rest.currentContext]

\* Merge of the listed files: the first file to set a map key or the
\* current context wins.
RECURSIVE MergeConfigs(_)
MergeConfigs(cfgs) ==
    IF cfgs = <<>> THEN NewConfig
    ELSE LET first == Head(cfgs)
             rest  == MergeConfigs(Tail(cfgs))
         IN  [contexts |-> first.contexts @@ rest.contexts,
              clusters |-> first.clusters @@ rest.clusters,
              users    |-> first.users @@ rest.users,
              currentContext |-> IF first.currentContext # ""
                                 THEN first.currentContext
                                 ELSE rest.currentContext]

\* api.FlattenConfig: credentials referenced by file are inlined as data.
Inline(m) == [k \in DOMAIN m |-> IF m[k] = "file" THEN "data" ELSE m[k]]

FlattenConfig(cfg) ==
    [cfg EXCEPT !.clusters = Inline(cfg.clusters), !.users = Inline(cfg.users)]

\* A list of paths without its repeated entries, first occurrences kept.
RECURSIVE Deduplicate(_)
Deduplicate(s) ==
    IF s = <<>> THEN <<>>
    ELSE LET n == Len(s)
             front == Deduplicate(SubSeq(s, 1, n - 1))
         IN  IF s[n] \in Range(front) THEN front ELSE Append(front, s[n])

\* PathOptions.GetLoadingPrecedence: the files of KUBECONFIG, or the default.
LoadingPrecedence(env) ==
    LET envFiles == Getenv(env, EnvVarConfig)
    IN  IF envFiles # <<>> THEN Deduplicate(envFiles) ELSE <<DefaultConfig>>

RECURSIVE LoadFiles(_, _)
LoadFiles(fs, paths) ==
    IF paths = <<>> THEN <<>>
    ELSE IF Head(paths) \in DOMAIN fs
         THEN <<Decode(fs[Head(paths)].doc)>> \o LoadFiles(fs, Tail(paths))
         ELSE LoadFiles(fs, Tail(paths))

\* New: load the files KUBECONFIG lists (missing ones are skipped) and
\* flatten.  readable is false when a file that exists cannot be read or
\* parsed.
New(env, fs, readable) ==
    LET paths == LoadingPrecedence(env)
        present == {p \in Range(paths) : p \in DOMAIN fs}
    IN  IF present # {} /\ ~readable
        THEN [err |-> "load", config |-> NewConfig]
        ELSE [err |-> "",
              config |-> FlattenConfig(MergeConfigs(LoadFiles(fs, paths)))]

\* writeConfig that, when the file exists, sets the current context in the
\* document the file holds instead of writing the configuration anew.
writeConfig_PatchesFile(fs, cfg, path, t, writable) ==
    IF Len(path) # 1 \/ path = <<NoPath>> \/ ~writable
    THEN [err |-> "write", files |-> fs, written |-> {}]
    ELSE [err |-> "",
          files |-> (path[1] :>
                        [doc |-> IF path[1] \in DOMAIN fs
                                 THEN [fs[path[1]].doc EXCEPT
                                          !.currentContext = cfg.currentContext]
                                 ELSE Encode(cfg),
                         mtime |-> t]) @@ fs,
          written |-> {path[1]}]

\* writeConfig: path is the value of a string that names a file; writable
\* is false when the file system refuses the write.
writeConfig(fs, cfg, path, t, writable) ==
    IF Len(path) # 1 \/ path = <<NoPath>> \/ ~writable
    THEN [err |-> "write", files |-> fs, written |-> {}]
    ELSE [err |-> "",
          files |-> (path[1] :> [doc |-> Encode(cfg), mtime |-> t]) @@ fs,
          written |-> {path[1]}]

-----------------------------------------------------------------------------
(* The Kubeswitch methods.  Each returns a record of its effects.          *)

\* The binaries the system can execute as a shell.
Executables == {<<"sh">>}

\* ListContexts that leaves out the first name.
ListContexts_SkipsFirst(cfg) ==
    LET ctxs == SortStrings(SetToSeq(DOMAIN cfg.contexts))
    IN  IF ctxs = <<>> THEN <<>> ELSE Tail(ctxs)

ListContexts(cfg) == SortStrings(SetToSeq(DOMAIN cfg.contexts))

\* IsValidContext that looks at the first context only.
IsValidContext_FirstOnly(cfg, ctx) ==
    ListContexts(cfg) # <<>> /\ ctx = ListContexts(cfg)[1]

\* IsValidContext with the comparison inverted.
IsValidContext_Differs(cfg, ctx) ==
    \E i \in 1..Len(ListContexts(cfg)) : ctx # ListContexts(cfg)[i]

IsValidContext(cfg, ctx) ==
    \E i \in 1..Len(ListContexts(cfg)) : ctx = ListContexts(cfg)[i]

\* setupSession that, starting a new session, clears the session directory
\* of the files of earlier sessions.
setupSession_CleansUp(cfg, env, fs, t, writable) ==
    IF IsActive(env)
    THEN LET w == writeConfig(fs, cfg, Getenv(env, EnvVarConfig), t, writable)
         IN  [err |-> w.err, env |-> env, files |-> w.files,
              written |-> w.written, exec |-> "none"]
    ELSE LET kubePath == <<SessionPath(t)>>
             kept == [p \in {q \in DOMAIN fs : q[1] # sessionDir} |-> fs[p]]
             w == writeConfig(kept, cfg, kubePath, t, writable)
             env2 == Setenv(Setenv(env, EnvVarActive, TRUE_),
                            EnvVarConfig, kubePath)
         IN  IF w.err # ""
             THEN [err |-> w.err, env |-> env, files |-> fs,
                   written |-> w.written, exec |-> "none"]
             ELSE [err |-> "", env |-> env2, files |-> w.files,
                   written |-> w.written,
                   exec |-> IF Getenv(env2, "shell") \in Executables
                            THEN "ok" ELSE "failed"]

\* setupSession that sets the variables and starts the shell before it
\* looks at the result of the write.
setupSession_SetsEnvFirst(cfg, env, fs, t, writable) ==
    IF IsActive(env)
    THEN LET w == writeConfig(fs, cfg, Getenv(env, EnvVarConfig), t, writable)
         IN  [err |-> w.err, env |-> env, files |-> w.files,
              written |-> w.written, exec |-> "none"]
    ELSE LET kubePath == <<SessionPath(t)>>
             w == writeConfig(fs, cfg, kubePath, t, writable)
             env2 == Setenv(Setenv(env, EnvVarActive, TRUE_),
                            EnvVarConfig, kubePath)
         IN  [err |-> w.err, env |-> env2, files |-> w.files,
              written |-> w.written,
              exec |-> IF Getenv(env2, "shell") \in Executables
                       THEN "ok" ELSE "failed"]

\* setupSession that starts a new session whether or not one is active.
setupSession_AlwaysNew(cfg, env, fs, t, writable) ==
    LET kubePath == <<SessionPath(t)>>
        w == writeConfig(fs, cfg, kubePath, t, writable)
        env2 == Setenv(Setenv(env, EnvVarActive, TRUE_), EnvVarConfig, kubePath)
    IN  IF w.err # ""
        THEN [err |-> w.err, env |-> env, files |-> w.files,
              written |-> w.written, exec |-> "none"]
        ELSE [err |-> "", env |-> env2, files |-> w.files, written |-> w.written,
              exec |-> IF Getenv(env2, "shell") \in Executables
                       THEN "ok" ELSE "failed"]

\* setupSession that writes the new session to the default kube config.
setupSession_WritesKubeDir(cfg, env, fs, t, writable) ==
    IF IsActive(env)
    THEN LET w == writeConfig(fs, cfg, Getenv(env, EnvVarConfig), t, writable)
         IN  [err |-> w.err, env |-> env, files |-> w.files,
              written |-> w.written, exec |-> "none"]
    ELSE LET kubePath == <<DefaultConfig>>
             w == writeConfig(fs, cfg, kubePath, t, writable)
             env2 == Setenv(Setenv(env, EnvVarActive, TRUE_),
                            EnvVarConfig, kubePath)
         IN  IF w.err # ""
             THEN [err |-> w.err, env |-> env, files |-> w.files,
                   written |-> w.written, exec |-> "none"]
             ELSE [err |-> "", env |-> env2, files |-> w.files,
                   written |-> w.written,
                   exec |-> IF Getenv(env2, "shell") \in Executables
                            THEN "ok" ELSE "failed"]

\* setupSession that does not set the marker for the new shell.
setupSession_NoMarker(cfg, env, fs, t, writable) ==
    IF IsActive(env)
    THEN LET w == writeConfig(fs, cfg, Getenv(env, EnvVarConfig), t, writable)
         IN  [err |-> w.err, env |-> env, files |-> w.files,
              written |-> w.written, exec |-> "none"]
    ELSE LET kubePath == <<SessionPath(t)>>
             w == writeConfig(fs, cfg, kubePath, t, writable)
             env2 == Setenv(env, EnvVarConfig, kubePath)
         IN  IF w.err # ""
             THEN [err |-> w.err, env |-> env, files |-> w.files,
                   written |-> w.written, exec |-> "none"]
             ELSE [err |-> "", env |-> env2, files |-> w.files,
                   written |-> w.written,
                   exec |-> IF Getenv(env2, "shell") \in Executables
                            THEN "ok" ELSE "failed"]

\* setupSession at time t.  exec is "none" when no replacement of the
\* process was attempted, "ok" when the process became $SHELL, "failed"
\* when syscall.Exec returned (its error is dropped).
setupSession(cfg, env, fs, t, writable) ==
    IF IsActive(env)
    THEN LET w == writeConfig(fs, cfg, Getenv(env, EnvVarConfig), t, writable)
         IN  [err |-> w.err, env |-> env, files |-> w.files,
              written |-> w.written, exec |-> "none"]
    ELSE LET kubePath == <<SessionPath(t)>>
             w == writeConfig(fs, cfg, kubePath, t, writable)
             env2 == Setenv(Setenv(env, EnvVarActive, TRUE_),
                            EnvVarConfig, kubePath)
         IN  IF w.err # ""
             THEN [err |-> w.err, env |-> env, files |-> w.files,
                   written |-> w.written, exec |-> "none"]
             ELSE [err |-> "", env |-> env2, files |-> w.files,
                   written |-> w.written,
                   exec |-> IF Getenv(env2, "shell") \in Executables
                            THEN "ok" ELSE "failed"]

\* SetContext that commits without setting the current context.
SetContext_KeepsCurrent(cfg, env, fs, t, ctx, writable) ==
    IF ~IsValidContext(cfg, ctx)
    THEN [err |-> "invalid context", config |-> cfg, env |-> env,
          files |-> fs, written |-> {}, exec |-> "none"]
    ELSE LET s == setupSession(cfg, env, fs, t, writable)
         IN  [err |-> s.err, config |-> cfg, env |-> s.env,
              files |-> s.files, written |-> s.written, exec |-> s.exec]

\* SetContext that does not validate the name.
SetContext_NoCheck(cfg, env, fs, t, ctx, writable) ==
    LET cfg2 == [cfg EXCEPT !.currentContext = ctx]
        s == setupSession(cfg2, env, fs, t, writable)
    IN  [err |-> s.err, config |-> cfg2, env |-> s.env,
         files |-> s.files, written |-> s.written, exec |-> s.exec]

\* SetContext that clears the namespace of the context it selects.
SetContext_ResetsNamespace(cfg, env, fs, t, ctx, writable) ==
    IF ~IsValidContext(cfg, ctx)
    THEN [err |-> "invalid context", config |-> cfg, env |-> env,
          files |-> fs, written |-> {}, exec |-> "none"]
    ELSE LET cfg2 == [cfg EXCEPT !.currentContext = ctx,
                                 !.contexts[ctx].namespace = ""]
             s == setupSession(cfg2, env, fs, t, writable)
         IN  [err |-> s.err, config |-> cfg2, env |-> s.env,
              files |-> s.files, written |-> s.written, exec |-> s.exec]

SetContext(cfg, env, fs, t, ctx, writable) ==
    IF ~IsValidContext(cfg, ctx)
    THEN [err |-> "invalid context", config |-> cfg, env |-> env,
          files |-> fs, written |-> {}, exec |-> "none"]
    ELSE LET cfg2 == [cfg EXCEPT !.currentContext = ctx]
             s == setupSession(cfg2, env, fs, t, writable)
         IN  [err |-> s.err, config |-> cfg2, env |-> s.env,
              files |-> s.files, written |-> s.written, exec |-> s.exec]

\* Whether a REST configuration can be built from cfg: the current context,
\* when named, exists, and the cluster it selects (the cluster named "" when
\* no context is selected) is defined.
RESTConfigUsable(cfg) ==
    LET cc == cfg.currentContext
        cluster == IF cc \in DOMAIN cfg.contexts
                   THEN cfg.contexts[cc].cluster ELSE ""
    IN  /\ cc # "" => cc \in DOMAIN cfg.contexts
        /\ cluster \in DOMAIN cfg.clusters

\* LoadNamespaces that sends the request again when it failed; the cluster
\* answers the second one.
LoadNamespaces_Retries(cfg, reachable, items) ==
    IF ~RESTConfigUsable(cfg)
    THEN [err |-> "rest config", namespaces |-> <<>>, requests |-> 0]
    ELSE [err |-> "", namespaces |-> items,
          requests |-> IF reachable THEN 1 ELSE 2]

\* LoadNamespaces: items is what the cluster lists, reachable whether the
\* request to it succeeds.
\* requests counts the list requests sent to the cluster.
LoadNamespaces(cfg, reachable, items) ==
    IF ~RESTConfigUsable(cfg)
    THEN [err |-> "rest config", namespaces |-> <<>>, requests |-> 0]
    ELSE IF ~reachable
         THEN [err |-> "unreachable", namespaces |-> <<>>, requests |-> 1]
    ELSE [err |-> "", namespaces |-> items, requests |-> 1]

\* ListNamespaces that returns the names in the order of the items.
ListNamespaces_Unsorted(nss) == nss

ListNamespaces(nss) == SortStrings(nss)

\* IsValidNamespace that looks at the first item only.
IsValidNamespace_FirstOnly(nss, ns) == nss # <<>> /\ nss[1] = ns

\* IsValidNamespace with the comparison inverted.
IsValidNamespace_Differs(nss, ns) == \E i \in 1..Len(nss) : nss[i] # ns

IsValidNamespace(nss, ns) == \E i \in 1..Len(nss) : nss[i] = ns

\* SetNamespace that sets the namespace of every context.
SetNamespace_AllContexts(cfg, nss, env, fs, t, ns, writable) ==
    IF ~IsValidNamespace(nss, ns)
    THEN [err |-> "invalid namespace", config |-> cfg, env |-> env,
          files |-> fs, written |-> {}, exec |-> "none"]
    ELSE LET cfg2 == [cfg EXCEPT !.contexts =
                        [name \in DOMAIN cfg.contexts |->
                            [cfg.contexts[name] EXCEPT !.namespace = ns]]]
             s == setupSession(cfg2, env, fs, t, writable)
         IN  [err |-> s.err, config |-> cfg2, env |-> s.env,
              files |-> s.files, written |-> s.written, exec |-> s.exec]

SetNamespace(cfg, nss, env, fs, t, ns, writable) ==
    IF ~IsValidNamespace(nss, ns)
    THEN [err |-> "invalid namespace", config |-> cfg, env |-> env,
          files |-> fs, written |-> {}, exec |-> "none"]
    ELSE LET cfg2 == [cfg EXCEPT !.contexts =
                        [name \in DOMAIN cfg.contexts |->
                            IF name = cfg.currentContext
                            THEN [cfg.contexts[name] EXCEPT !.namespace = ns]
                            ELSE cfg.contexts[name]]]
             s == setupSession(cfg2, env, fs, t, writable)
         IN  [err |-> s.err, config |-> cfg2, env |-> s.env,
              files |-> s.files, written |-> s.written, exec |-> s.exec]

\* The entries of the session directory.
SessionEntries(fs) == {p \in DOMAIN fs : p[1] = sessionDir}

\* Purge that also deletes the entries last modified at the cutoff.
Purge_Inclusive(fs, t, days, stuck) ==
    LET delTime == t - days * DayTicks
        old == {p \in SessionEntries(fs) : fs[p].mtime <= delTime}
        removed == old \ stuck
    IN  [files |-> [p \in DOMAIN fs \ removed |-> fs[p]],
         removed |-> removed, failed |-> old \cap stuck, delTime |-> delTime]

\* Purge that gives up at the first entry whose removal fails (entries are
\* visited in the order of their names).
Purge_AbortsOnError(fs, t, days, stuck) ==
    LET delTime == t - days * DayTicks
        old == {p \in SessionEntries(fs) : fs[p].mtime < delTime}
        removed == {p \in old \ stuck : \A q \in old \cap stuck : p[2] < q[2]}
    IN  [files |-> [p \in DOMAIN fs \ removed |-> fs[p]],
         removed |-> removed, failed |-> old \cap stuck, delTime |-> delTime]

\* Purge that leaves alone the files the sessions of the terminals name.
Purge_SparesLive(fs, t, days, stuck) ==
    LET delTime == t - days * DayTicks
        live == UNION {Range(Getenv(termEnv[x], EnvVarConfig)) :
                        x \in {y \in DOMAIN termEnv : IsActive(termEnv[y])}}
        old == {p \in SessionEntries(fs) : fs[p].mtime < delTime /\ p \notin live}
        removed == old \ stuck
    IN  [files |-> [p \in DOMAIN fs \ removed |-> fs[p]],
         removed |-> removed, failed |-> old \cap stuck, delTime |-> delTime]

\* Purge that stops after the first entry it removes.
Purge_OnePerRun(fs, t, days, stuck) ==
    LET delTime == t - days * DayTicks
        old == {p \in SessionEntries(fs) : fs[p].mtime < delTime}
        removed == IF old \ stuck = {} THEN {}
                   ELSE {CHOOSE p \in old \ stuck : TRUE}
    IN  [files |-> [p \in DOMAIN fs \ removed |-> fs[p]],
         removed |-> removed, failed |-> old \cap stuck, delTime |-> delTime]

\* Purge at time t: stuck is the set of entries os.Remove fails on.
Purge(fs, t, days, stuck) ==
    LET delTime == t - days * DayTicks
        old == {p \in SessionEntries(fs) : fs[p].mtime < delTime}
        removed == old \ stuck
    IN  [files |-> [p \in DOMAIN fs \ removed |-> fs[p]],
         removed |-> removed, failed |-> old \cap stuck, delTime |-> delTime]

\* init that prints the error of MkdirAll and goes on.
init_GoesOn(ds, creatable) ==
    IF sessionDir \in ds \/ ~creatable THEN [err |-> "", dirs |-> ds]
    ELSE [err |-> "", dirs |-> ds \cup {kubeDir, sessionDir}]

\* init of the package, run when the process starts: ds are the directories
\* that exist, creatable whether MkdirAll can make the session directory.
init(ds, creatable) ==
    IF sessionDir \in ds THEN [err |-> "", dirs |-> ds]
    ELSE IF creatable THEN [err |-> "", dirs |-> ds \cup {kubeDir, sessionDir}]
    ELSE [err |-> "mkdir", dirs |-> ds]

-----------------------------------------------------------------------------
(* Start-up configuration (cmd package).                                   *)

\* strings.Join(l, ":") of strings that are lists of paths; the empty
\* string between two colons is the path "".
RECURSIVE Join(_)
Join(l) ==
    IF l = <<>> THEN <<>>
    ELSE IF Len(l) = 1 THEN l[1]
    ELSE (IF l[1] = <<>> THEN <<NoPath>> ELSE l[1])
         \o (IF Len(l) = 2 /\ l[2] = <<>> THEN <<NoPath>> ELSE Join(Tail(l)))

\* removeDuplicates: the distinct strings of s, in the order the map of
\* them happens to be ranged in; the set of results it can return.
removeDuplicates(s) ==
    LET items == Range(s)
    IN  {r \in [1..Cardinality(items) -> items] : Range(r) = items}

\* setupKubeEnvVar that rebuilds KUBECONFIG in a session too.
setupKubeEnvVar_Always(env, kubeConfig, globbed) ==
    LET configs == <<kubeConfig, Getenv(env, EnvVarConfig)>> \o globbed
    IN  {Setenv(env, EnvVarConfig, Join(r)) : r \in removeDuplicates(configs)}

\* setupKubeEnvVar: kubeConfig is the kubeConfig setting, globbed the files
\* the patterns of the configs setting match.  The set of environments it
\* can leave.
setupKubeEnvVar(env, kubeConfig, globbed) ==
    IF ~IsActive(env)
    THEN LET configs == <<kubeConfig, Getenv(env, EnvVarConfig)>> \o globbed
         IN  {Setenv(env, EnvVarConfig, Join(r)) : r \in removeDuplicates(configs)}
    ELSE {env}

-----------------------------------------------------------------------------
(* Inputs.                                                                 *)

\* A request: how the name is given (as argument, picked at the prompt, or
\* none in list-only mode), the name, what the cluster lists, and the
\* failure of the environment the invocation meets.
Req(mode, arg, items, fault) ==
    [mode |-> mode, arg |-> arg, items |-> items, fault |-> fault]

ContextArgs == {"a", "b", "zz"}

\* A name picked at the prompt that is not listed stands for a cancelled prompt.
ContextRequests ==
    {Req("list", "", <<>>, "none")}
    \cup {Req("arg", a, <<>>, f) : a \in ContextArgs, f \in {"none", "unwritable"}}
    \cup {Req("arg", "b", <<>>, "unreadable")}
    \cup {Req("prompt", a, <<>>, "none") : a \in {"b", "zz"}}

NamespaceArgs == {"n1", "n2", "bad"}

\* What the cluster may answer to the namespace listing.
Snapshots == {<<>>, <<"n2", "n1">>}

NamespaceRequests ==
    {Req("list", "", <<"n2", "n1">>, "none")}
    \cup {Req("arg", a, <<"n2", "n1">>, "none") : a \in NamespaceArgs}
    \cup {Req("arg", "n1", <<"n2", "n1">>, f) :
            f \in {"unwritable", "unreachable", "unreadable"}}
    \cup {Req("arg", "n1", <<>>, "none")}
    \cup {Req("prompt", a, <<"n2", "n1">>, "none") : a \in {"n2", "bad"}}

\* The sets of entries removal may fail on: none, or any one entry.
StuckSets(fs) == {{}} \cup {{p} : p \in SessionEntries(fs)}

\* The tool's settings: the kubeConfig setting, the files the patterns of
\* the configs setting match, and whether the tool's configuration file was
\* there to read ("read") or not ("missing").
Settings(kubeConfig, globbed, configFile) ==
    [kubeConfig |-> kubeConfig, globbed |-> globbed, configFile |-> configFile]

\* No configuration file: nothing is set.
NoSettings == Settings(<<>>, <<>>, "missing")

Ctx(cluster, user, namespace) ==
    [cluster |-> cluster, user |-> user, namespace |-> namespace]

Named(name, value) == [name |-> name, value |-> value]

\* Documents the user may have at <home>/.kube/config.
DocAB ==
    [contexts |-> <<Named("a", Ctx("c1", "u1", "")), Named("b", Ctx("c1", "u1", "n2"))>>,
     clusters |-> <<Named("c1", "file")>>, users |-> <<Named("u1", "data")>>,
     currentContext |-> "a"]

DocNoCurrent ==
    [contexts |-> <<Named("a", Ctx("c1", "u1", ""))>>,
     clusters |-> <<Named("", "data"), Named("c1", "data")>>,
     users |-> <<Named("u1", "file")>>, currentContext |-> ""]

DocDangling ==
    [contexts |-> <<Named("a", Ctx("c1", "u1", "n1"))>>,
     clusters |-> <<Named("c1", "data")>>, users |-> <<Named("u1", "data")>>,
     currentContext |-> "ghost"]

DocOther ==
    [contexts |-> <<Named("b", Ctx("c1", "u1", "n1"))>>,
     clusters |-> <<Named("c1", "data")>>, users |-> <<Named("u1", "data")>>,
     currentContext |-> "b"]

SourceDocs == {DocAB, DocNoCurrent, DocDangling}

Env(active, kubeconfig, shell) ==
    [active |-> active, kubeconfig |-> kubeconfig, shell |-> shell]

\* Marker values a login shell may carry that do not mark a session.
InactiveMarkers ==
    {Unset, Val(<<>>), Val(<<"f", "a", "l", "s", "e">>), Val(<<"1">>),
     Val(<<"y", "e", "s">>)}

\* Marker values set by hand that mark a session.
ActiveMarkers == {Val(<<"T", "r", "u", "e">>), Val(TRUE_)}

Shell == Val(<<"sh">>)

\* The user's kube config, settings and login environment at the start.
InitialWorlds ==
    {<<d, NoSettings, Env(Unset, k, Shell)>> :
        d \in SourceDocs, k \in {Unset, Val(<<DefaultConfig, OtherConfig>>)}}
    \cup {<<DocAB, Settings(<<OtherConfig>>, <<>>, "read"), Env(Unset, k, Shell)>> :
            k \in {Unset, Val(<<DefaultConfig>>)}}
    \cup {<<DocAB, NoSettings, Env(Unset, Val(<<DefaultConfig>>), sh)>> :
            sh \in {Unset, Val(<<"nosuch">>)}}
    \cup {<<DocAB, NoSettings, Env(Val(<<"T", "r", "u", "e">>), Val(<<DefaultConfig>>), Shell)>>,
          <<DocAB, NoSettings, Env(Val(TRUE_), Unset, Shell)>>}

-----------------------------------------------------------------------------
(* The commands.  An invocation started in terminal term inherits the      *)
(* environment of that terminal's shell; when it replaces itself by $SHELL *)
(* the new shell, with the invocation's environment, is the terminal's.    *)

\* What `last` holds before any invocation.  `before` is the content the
\* written file had when the write began (SpecConcurrent), `valid` the
\* answer of IsValidContext or IsValidNamespace (SpecListing).  `out` is
\* what the command prints on standard output, `errOut` on standard error;
\* `warn` tells that initConfig printed its warning (on standard output)
\* ahead of it.  `fault` is the failure the invocation was made to meet,
\* `requests` the number of list requests sent to the cluster, `dir0`
\* whether the session directory was there at the start and `mkdirOk`
\* whether it was or could be made.
NoCmd ==
    [cmd |-> "none", term |-> 0, mode |-> "", arg |-> "", time |-> 0,
     call |-> "", active |-> FALSE, nested |-> 0,
     env0 |-> Env(Unset, Unset, Unset), env1 |-> Env(Unset, Unset, Unset),
     env2 |-> Env(Unset, Unset, Unset),
     loaded |-> FALSE, cfg0 |-> NewConfig, cfg1 |-> NewConfig,
     snapshot |-> <<>>, err |-> "", exit |-> 0, out |-> <<>>,
     written |-> {}, exec |-> "none", files0 |-> EmptyMap,
     days |-> 0, delTime |-> 0, removed |-> {}, failed |-> {},
     again |-> FALSE, prevDelTime |-> 0, prevFailed |-> {},
     before |-> Encode(NewConfig), valid |-> FALSE,
     fault |-> "none", requests |-> 0, errOut |-> <<>>, warn |-> FALSE,
     dir0 |-> TRUE, mkdirOk |-> TRUE, kept |-> {}]

\* An invocation in flight (SpecConcurrent): where it is (pc), the shell it
\* was started from, its request, its environment, the configuration it
\* loaded and its mutated copy, the clock value and the path of its write,
\* the content the file had before the write began, and whether the
\* configuration it loaded came from a file caught in the middle of a write.
NoProc ==
    [pc |-> "idle", shell |-> 0, cmd |-> "", arg |-> "",
     env |-> Env(Unset, Unset, Unset), cfg0 |-> NewConfig, cfg1 |-> NewConfig,
     time |-> 0, path |-> NoPath, old |-> Encode(NewConfig), torn |-> FALSE,
     err |-> ""]

\* fail(err): the message is printed with fmt.Println and the process exits
\* with status 1.
Failed(rec, err) == [rec EXCEPT !.err = err, !.exit = 1, !.out = Append(@, err)]

\* The record of a call of method (SetContext or SetNamespace) with effects r.
Called(rec, method, r) ==
    [rec EXCEPT !.call = method, !.cfg1 = r.config, !.env2 = r.env, !.written = r.written,
                !.exec = r.exec, !.err = r.err,
                !.exit = IF r.err # "" THEN 1 ELSE 0,
                !.out = IF r.err # "" THEN Append(@, r.err) ELSE @]

\* contextCmd that, in list-only mode, also switches to the first context.
contextCmd_ListSwitches(rec, fs, t, mode, arg, readable, writable) ==
    LET ks == New(rec.env1, fs, readable)
        loaded == [rec EXCEPT !.loaded = TRUE, !.cfg0 = ks.config, !.cfg1 = ks.config]
        ctxs == ListContexts(ks.config)
        pick == IF mode = "list" /\ ctxs # <<>> THEN ctxs[1] ELSE arg
        r == SetContext(ks.config, rec.env1, fs, t, pick, writable)
    IN  IF ks.err # "" THEN [rec |-> Failed(rec, ks.err), files |-> fs]
        ELSE IF mode = "prompt" /\ arg \notin Range(ctxs)
             THEN [rec |-> Failed(loaded, "prompt"), files |-> fs]
        ELSE [rec |-> Called([loaded EXCEPT !.out = IF mode = "list" THEN ctxs ELSE @],
                             "SetContext", r),
              files |-> r.files]

\* contextCmd, run at time t in environment env1 (after start-up).
contextCmd(rec, fs, t, mode, arg, readable, writable) ==
    LET ks == New(rec.env1, fs, readable)
        loaded == [rec EXCEPT !.loaded = TRUE, !.cfg0 = ks.config, !.cfg1 = ks.config]
        ctxs == ListContexts(ks.config)
    IN  IF ks.err # "" THEN [rec |-> Failed(rec, ks.err), files |-> fs]
        ELSE IF mode = "list" THEN [rec |-> [loaded EXCEPT !.out = ctxs], files |-> fs]
        ELSE IF mode = "prompt" /\ arg \notin Range(ctxs)
             THEN [rec |-> Failed(loaded, "prompt"), files |-> fs]
        ELSE LET r == SetContext(ks.config, rec.env1, fs, t, arg, writable)
             IN  [rec |-> Called(loaded, "SetContext", r), files |-> r.files]

\* namespaceCmd, run at time t in environment env1 (after start-up).
namespaceCmd(rec, fs, t, mode, arg, readable, writable, reachable, items) ==
    LET ks == New(rec.env1, fs, readable)
        loaded == [rec EXCEPT !.loaded = TRUE, !.cfg0 = ks.config, !.cfg1 = ks.config]
        ln == LoadNamespaces(ks.config, reachable, items)
        asked == [loaded EXCEPT !.requests = ln.requests]
        listed == [asked EXCEPT !.snapshot = ln.namespaces]
        nss == ListNamespaces(ln.namespaces)
    IN  IF ks.err # "" THEN [rec |-> Failed(rec, ks.err), files |-> fs]
        ELSE IF ln.err # "" THEN [rec |-> Failed(asked, ln.err), files |-> fs]
        ELSE IF mode = "list" THEN [rec |-> [listed EXCEPT !.out = nss], files |-> fs]
        ELSE IF mode = "prompt" /\ arg \notin Range(nss)
             THEN [rec |-> Failed(listed, "prompt"), files |-> fs]
        ELSE LET r == SetNamespace(ks.config, ln.namespaces, rec.env1, fs, t,
                                   arg, writable)
             IN  [rec |-> Called(listed, "SetNamespace", r), files |-> r.files]

\* purgeCmd, run at time t.  The record notes whether the invocation before
\* it was a purge with the same retention (no file was created or modified
\* in between), and that run's cutoff and failures.
purgeCmd(rec, fs, t, days, stuck) ==
    LET r == Purge(fs, t, days, stuck)
        again == last.cmd = "purge" /\ last.days = days
    IN  [rec |-> [rec EXCEPT !.days = days, !.delTime = r.delTime,
                             !.removed = r.removed, !.failed = r.failed,
                             !.out = <<"purging">>
                                     \o [i \in 1..Cardinality(r.failed) |-> "remove error"]
                                     \o <<"done">>,
                             !.again = again,
                             !.prevDelTime = IF again THEN last.delTime ELSE 0,
                             !.prevFailed = IF again THEN last.failed ELSE {}],
         files |-> r.files]

\* The record of an invocation at its start, after initConfig.
Started(cmd, term, mode, arg, t, env1) ==
    [NoCmd EXCEPT !.cmd = cmd, !.term = term, !.mode = mode, !.arg = arg,
                  !.time = t, !.active = IsActive(termEnv[term]),
                  !.nested = spawned[term],
                  !.env0 = termEnv[term], !.env1 = env1,
                  !.env2 = env1, !.files0 = files,
                  !.warn = (settings.configFile = "missing")]

\* The state after an invocation with outcome o.
Finish(term, t, o) ==
    /\ files' = o.files
    /\ termEnv' = [termEnv EXCEPT ![term] = IF o.rec.exec = "ok" THEN o.rec.env2 ELSE @]
    /\ UNCHANGED <<settings, procs>>
    /\ spawned' = [spawned EXCEPT ![term] = IF o.rec.exec = "ok" THEN @ + 1 ELSE @]
    /\ now' = t
    /\ last' = o.rec

\* initConfig: the environments it can leave an invocation started in env with.
initConfig(env) == setupKubeEnvVar(env, settings.kubeConfig, settings.globbed)

\* Whether MkdirAll can make the session directory; it is called only when
\* the directory is not there.
Creatable == IF sessionDir \in dirs THEN {TRUE} ELSE BOOLEAN

\* History kept for the properties: the triples <<p, c, n>> such that the
\* latest successful SetNamespace made in a session on file p with current
\* context c asked for namespace n.  Kept(rec) is the history after the
\* invocation rec.
Kept(rec) ==
    LET c == rec.cfg0.currentContext
    IN  IF /\ rec.call = "SetNamespace" /\ rec.active /\ rec.err = ""
           /\ c \in DOMAIN rec.cfg0.contexts
        THEN {k \in last.kept : ~(k[1] \in rec.written /\ k[2] = c)}
             \cup {<<p, c, rec.arg>> : p \in rec.written}
        ELSE last.kept

\* A whole run: init of the kubeswitch package first; when it fails the
\* process exits there, before initConfig and the command, else the run
\* has outcome o.
Run(term, t, start, creatable, o) ==
    LET i == init(dirs, creatable)
        present == sessionDir \in dirs
        noted(rec) == [rec EXCEPT !.dir0 = present, !.mkdirOk = present \/ creatable,
                                  !.kept = Kept(rec)]
        stopped == [start EXCEPT !.env1 = start.env0, !.env2 = start.env0,
                                 !.warn = FALSE]
    IN  /\ dirs' = i.dirs
        /\ Finish(term, t,
                  IF i.err # ""
                  THEN [rec |-> noted(Failed(stopped, i.err)), files |-> files]
                  ELSE [rec |-> noted(o.rec), files |-> o.files])

ContextCmd(term) ==
    /\ now < MaxTime
    /\ \E q \in ContextRequests, env1 \in initConfig(termEnv[term]),
          creatable \in Creatable :
        LET start == [Started("context", term, q.mode, q.arg, now + 1, env1)
                        EXCEPT !.fault = q.fault]
        IN  Run(term, now + 1, start, creatable,
                contextCmd(start, files, now + 1, q.mode, q.arg,
                           q.fault # "unreadable", q.fault # "unwritable"))

NamespaceCmd(term) ==
    /\ now < MaxTime
    /\ \E q \in NamespaceRequests, env1 \in initConfig(termEnv[term]),
          creatable \in Creatable :
        LET start == [Started("namespace", term, q.mode, q.arg, now + 1, env1)
                        EXCEPT !.fault = q.fault]
        IN  Run(term, now + 1, start, creatable,
                namespaceCmd(start, files, now + 1, q.mode, q.arg,
                             q.fault # "unreadable", q.fault # "unwritable",
                             q.fault # "unreachable", q.items))

PurgeCmd(term) ==
    /\ now < MaxTime
    /\ \E days \in 0..MaxDays, stuck \in StuckSets(files),
          env1 \in initConfig(termEnv[term]), creatable \in Creatable :
        LET start == Started("purge", term, "", "", now + 1, env1)
        IN  Run(term, now + 1, start, creatable,
                purgeCmd(start, files, now + 1, days, stuck))

\* Time passes with no invocation running.
Tick ==
    /\ now < MaxTime
    /\ now' = now + 1
    /\ UNCHANGED <<files, settings, termEnv, spawned, last, procs, dirs>>

Init ==
    /\ \E w \in InitialWorlds :
        /\ files = (DefaultConfig :> [doc |-> w[1], mtime |-> 0])
                   @@ (OtherConfig :> [doc |-> DocOther, mtime |-> 0])
                   @@ (SessionPath(0) :> [doc |-> DocOther, mtime |-> 0])
        /\ settings = w[2]
        /\ termEnv = [t \in Terms |-> w[3]]
    /\ spawned = [t \in Terms |-> 0]
    /\ now = 0
    /\ last = NoCmd
    /\ procs = [p \in Procs |-> NoProc]
    /\ dirs = {kubeDir, sessionDir}

\* The terminals a command is typed in.  Of terminals whose shells are in
\* the same state (same environment, same nesting) the first stands for
\* all: a run in one of the others is the same run with the names of the
\* terminals exchanged.
Terminals ==
    {term \in Terms :
        \A t \in Terms :
            t < term => termEnv[t] # termEnv[term] \/ spawned[t] # spawned[term]}

Next ==
    \/ \E term \in Terminals : ContextCmd(term)
    \/ \E term \in Terminals : NamespaceCmd(term)
    \/ \E term \in Terminals : PurgeCmd(term)
    \/ Tick

Spec == Init /\ [][Next]_vars

-----------------------------------------------------------------------------
(* The first runs of the tool: the user has a kube config, and the session *)
(* directory has not been made yet.                                        *)

InitStartup ==
    /\ files = (DefaultConfig :> [doc |-> DocAB, mtime |-> 0])
    /\ settings = NoSettings
    /\ termEnv = [t \in Terms |-> Env(Unset, Unset, Shell)]
    /\ spawned = [t \in Terms |-> 0]
    /\ now = 0
    /\ last = NoCmd
    /\ procs = [p \in Procs |-> NoProc]
    /\ dirs = {kubeDir}

SpecStartup == InitStartup /\ [][Next]_vars

-----------------------------------------------------------------------------
(* IsActive on its own: the marker is set to each value in turn and        *)
(* IsActive is called, as TestIsActive does.                               *)

MarkerAlphabet == {"t", "T", "r", "R", "u", "U", "e", "E", "1"}

\* Values of KUBESWITCH_ACTIVE: unset, every string over the alphabet up to
\* MaxMarkerLen characters, and the values InactiveMarkers names.
Markers ==
    {Unset} \cup InactiveMarkers
    \cup {Val(m) : m \in UNION {[1..n -> MarkerAlphabet] : n \in 0..MaxMarkerLen}}

InitIsActive ==
    /\ files = (DefaultConfig :> [doc |-> DocAB, mtime |-> 0])
    /\ settings = NoSettings
    /\ \E m \in Markers : termEnv = [t \in Terms |-> Env(m, Unset, Shell)]
    /\ spawned = [t \in Terms |-> 0]
    /\ now = 0
    /\ last = NoCmd
    /\ procs = [p \in Procs |-> NoProc]
    /\ dirs = {kubeDir, sessionDir}

TestIsActive(term) ==
    /\ last.cmd = "none"
    /\ last' = [NoCmd EXCEPT !.cmd = "IsActive", !.term = term,
                             !.active = IsActive(termEnv[term]),
                             !.env0 = termEnv[term], !.env1 = termEnv[term],
                             !.env2 = termEnv[term], !.files0 = files]
    /\ UNCHANGED <<files, settings, termEnv, spawned, now, procs, dirs>>

NextIsActive == \E term \in Terms : TestIsActive(term)

SpecIsActive == InitIsActive /\ [][NextIsActive]_vars

-----------------------------------------------------------------------------
(* The listing and validating methods on their own: a Kubeswitch is made   *)
(* by New from a kube config, a namespace snapshot is put in it as         *)
(* loadNamespaces of the tests does, and one method is called.             *)

\* Names of contexts and namespaces; "b" is a prefix of "bad".
ListNames == {"a", "b", "bad", "n1"}

\* The kube config whose contexts are named by names.
DocWith(names) ==
    [contexts |-> NamedList([n \in names |-> Ctx("c1", "u1", "")]),
     clusters |-> <<Named("c1", "data")>>, users |-> <<Named("u1", "data")>>,
     currentContext |-> ""]

\* The snapshots: every sequence of at most MaxItems names.
ItemLists == UNION {[1..n -> ListNames] : n \in 0..MaxItems}

\* The names asked about: the listed ones and one that never is.
AskedNames == ListNames \cup {"zz"}

\* The record of a method call on the configuration New loads.
MethodCall(term, method) ==
    LET ks == New(termEnv[term], files, TRUE)
    IN  [NoCmd EXCEPT !.cmd = method, !.term = term, !.loaded = TRUE,
                      !.cfg0 = ks.config, !.cfg1 = ks.config,
                      !.env0 = termEnv[term], !.env1 = termEnv[term],
                      !.env2 = termEnv[term], !.files0 = files]

CallListContexts(term) ==
    /\ last.cmd = "none"
    /\ LET rec == MethodCall(term, "ListContexts")
       IN  last' = [rec EXCEPT !.out = ListContexts(rec.cfg0)]
    /\ UNCHANGED <<files, settings, termEnv, spawned, now, procs, dirs>>

CallIsValidContext(term) ==
    /\ last.cmd = "none"
    /\ \E ctx \in AskedNames :
        LET rec == MethodCall(term, "IsValidContext")
        IN  last' = [rec EXCEPT !.arg = ctx, !.valid = IsValidContext(rec.cfg0, ctx)]
    /\ UNCHANGED <<files, settings, termEnv, spawned, now, procs, dirs>>

CallListNamespaces(term) ==
    /\ last.cmd = "none"
    /\ \E items \in ItemLists :
        LET rec == MethodCall(term, "ListNamespaces")
        IN  last' = [rec EXCEPT !.snapshot = items, !.out = ListNamespaces(items)]
    /\ UNCHANGED <<files, settings, termEnv, spawned, now, procs, dirs>>

CallIsValidNamespace(term) ==
    /\ last.cmd = "none"
    /\ \E items \in ItemLists, ns \in AskedNames :
        LET rec == MethodCall(term, "IsValidNamespace")
        IN  last' = [rec EXCEPT !.snapshot = items, !.arg = ns,
                                !.valid = IsValidNamespace(items, ns)]
    /\ UNCHANGED <<files, settings, termEnv, spawned, now, procs, dirs>>

InitListing ==
    /\ \E names \in SUBSET ListNames :
        files = (DefaultConfig :> [doc |-> DocWith(names), mtime |-> 0])
    /\ settings = NoSettings
    /\ termEnv = [t \in Terms |-> Env(Unset, Unset, Shell)]
    /\ spawned = [t \in Terms |-> 0]
    /\ now = 0
    /\ last = NoCmd
    /\ procs = [p \in Procs |-> NoProc]
    /\ dirs = {kubeDir, sessionDir}

NextListing ==
    \/ \E term \in Terms : CallListContexts(term)
    \/ \E term \in Terms : CallIsValidContext(term)
    \/ \E term \in Terms : CallListNamespaces(term)
    \/ \E term \in Terms : CallIsValidNamespace(term)

SpecListing == InitListing /\ [][NextListing]_vars

-----------------------------------------------------------------------------
(* Overlapping invocations.  An invocation runs in three steps: Load (start *)
(* up, New, validation and the change of its copy in memory), Open (the    *)
(* session branch is chosen, the clock is read, the file is opened and     *)
(* truncated) and Commit (the content is in the file, the environment is   *)
(* set and the process replaced, or the invocation exits).  Steps of       *)
(* different invocations interleave.  Starting a process takes time (the   *)
(* clock ticks in Load); reading the clock and opening the file does not:  *)
(* two invocations that were both started before either read the clock     *)
(* read the same time.                                                     *)

\* The shells the user types in.
Shells == {1, 2}

\* What the overlapping invocations are asked to do.
ConcurrentRequests ==
    {[cmd |-> "context", arg |-> "a"], [cmd |-> "context", arg |-> "b"],
     [cmd |-> "namespace", arg |-> "n1"]}

\* What the cluster lists.
ClusterNamespaces == <<"n2", "n1">>

\* What a reader can find in a file whose write has begun and not ended:
\* WriteToFile truncates the file and then writes the document, whose keys
\* come in alphabetical order (clusters, contexts, current-context, users).
\* The file is empty or holds a leading part of the document.
PartialDocs(doc) ==
    {Encode(NewConfig), [doc EXCEPT !.currentContext = "", !.users = <<>>]}

\* The part of a command between New and the session commit: the namespace
\* listing, the validation of the name and the change of the copy in memory.
Prepare(cmd, cfg, env, arg) ==
    LET ln == LoadNamespaces(cfg, TRUE, ClusterNamespaces)
        r == IF cmd = "context"
             THEN SetContext(cfg, env, EmptyMap, 0, arg, TRUE)
             ELSE SetNamespace(cfg, ln.namespaces, env, EmptyMap, 0, arg, TRUE)
    IN  IF cmd = "namespace" /\ ln.err # "" THEN [err |-> ln.err, config |-> cfg]
        ELSE IF r.err \in {"invalid context", "invalid namespace"}
             THEN [err |-> r.err, config |-> cfg]
        ELSE [err |-> "", config |-> r.config]

\* The shells invocation p may be started from.  A shell outside a session
\* waits for the invocation it started, which is to take its place; a
\* session shell may start several that overlap.
StartableFrom(p) ==
    {s \in Shells :
        /\ s <= p
        /\ IsActive(termEnv[s])
            \/ \A w \in Procs \ {p} :
                    procs[w].pc \in {"idle", "failed"} \/ procs[w].shell # s}

Load(p) ==
    /\ procs[p].pc \in {"idle", "failed"}
    /\ now < MaxTime
    /\ \E s \in StartableFrom(p), q \in ConcurrentRequests :
      \E env1 \in initConfig(termEnv[s]) :
        LET ks == New(env1, files, TRUE)
            torn == \E w \in Procs :
                        /\ procs[w].pc = "writing"
                        /\ procs[w].path \in Range(LoadingPrecedence(env1))
                        /\ files[procs[w].path].doc
                              \notin {procs[w].old, Encode(procs[w].cfg1)}
            m == Prepare(q.cmd, ks.config, env1, q.arg)
        IN  procs' = [procs EXCEPT ![p] =
                        IF m.err # ""
                        THEN [NoProc EXCEPT !.pc = "failed", !.shell = s,
                                            !.env = env1, !.torn = torn,
                                            !.err = m.err]
                        ELSE [NoProc EXCEPT !.pc = "loaded",
                                            !.shell = s, !.cmd = q.cmd, !.arg = q.arg,
                                            !.env = env1, !.cfg0 = ks.config,
                                            !.cfg1 = m.config, !.torn = torn]]
    /\ now' = now + 1
    /\ UNCHANGED <<files, settings, termEnv, spawned, last, dirs>>

Open(p) ==
    /\ procs[p].pc = "loaded"
    /\ LET me == procs[p]
           s == setupSession(me.cfg1, me.env, files, now, TRUE)
       IN  IF s.err # ""
           THEN /\ procs' = [procs EXCEPT ![p] = [NoProc EXCEPT !.pc = "failed",
                                                               !.err = s.err]]
                /\ UNCHANGED files
           ELSE \E path \in s.written, part \in PartialDocs(Encode(me.cfg1)) :
                /\ files' = (path :> [doc |-> part, mtime |-> now]) @@ files
                /\ procs' = [procs EXCEPT ![p].pc = "writing", ![p].time = now,
                                          ![p].path = path,
                                          ![p].old = IF path \in DOMAIN files
                                                     THEN files[path].doc
                                                     ELSE Encode(NewConfig)]
    /\ UNCHANGED <<settings, termEnv, spawned, now, last, dirs>>

Commit(p) ==
    /\ procs[p].pc = "writing"
    /\ LET me == procs[p]
           s == setupSession(me.cfg1, me.env, files, me.time, TRUE)
       IN  /\ files' = s.files
           /\ termEnv' = [termEnv EXCEPT ![me.shell] =
                                IF s.exec = "ok" THEN s.env ELSE @]
           /\ spawned' = [spawned EXCEPT ![me.shell] =
                                IF s.exec = "ok" THEN @ + 1 ELSE @]
           /\ procs' = [procs EXCEPT ![p] = NoProc]
           /\ last' = [NoCmd EXCEPT !.cmd = me.cmd, !.term = me.shell,
                                    !.mode = "arg", !.arg = me.arg,
                                    !.time = me.time,
                                    !.call = IF me.cmd = "context"
                                             THEN "SetContext" ELSE "SetNamespace",
                                    !.active = IsActive(me.env),
                                    !.env1 = me.env, !.env2 = s.env,
                                    !.loaded = TRUE,
                                    !.cfg0 = me.cfg0, !.cfg1 = me.cfg1,
                                    !.err = s.err, !.written = s.written,
                                    !.exec = s.exec, !.before = me.old]
    /\ UNCHANGED <<settings, now, dirs>>

InitConcurrent ==
    /\ files = (DefaultConfig :> [doc |-> DocAB, mtime |-> 0])
    /\ settings = NoSettings
    /\ termEnv = [s \in Shells |-> Env(Unset, Unset, Shell)]
    /\ spawned = [s \in Shells |-> 0]
    /\ now = 0
    /\ last = NoCmd
    /\ procs = [p \in Procs |-> NoProc]
    /\ dirs = {kubeDir, sessionDir}

NextConcurrent ==
    \/ \E p \in Procs : Load(p)
    \/ \E p \in Procs : Open(p)
    \/ \E p \in Procs : Commit(p)

SpecConcurrent == InitConcurrent /\ [][NextConcurrent]_vars

-----------------------------------------------------------------------------
(* Properties.  `last` describes the invocation that led to the state.     *)

\* The configuration the file at p holds.
Persisted(p) == Decode(files[p].doc)

\* The last invocation reached the session commit (the name was valid).
Committed ==
    /\ last.call # ""
    /\ last.err \notin {"invalid context", "invalid namespace"}

\* C1: SetContext(n) with n a key of the loaded contexts, whose commit
\* succeeds, leaves currentContext = n in memory and in the file it wrote.
C1_SetContextSetsCurrent ==
    (last.call = "SetContext" /\ last.arg \in DOMAIN last.cfg0.contexts
        /\ last.err = "")
    => /\ last.cfg1.currentContext = last.arg
       /\ last.written # {}
       /\ \A p \in last.written :
            p \in DOMAIN files /\ Persisted(p).currentContext = last.arg

C1_Witness ==
    /\ last.call = "SetContext" /\ last.err = ""
    /\ last.arg \in DOMAIN last.cfg0.contexts
    /\ last.cfg0.currentContext # last.arg
    /\ last.written # {}

\* C2: SetContext(n) with n no key of the loaded contexts fails with the
\* invalid-context error, keeps currentContext, writes no file, changes no
\* environment variable and attempts no shell replacement.
C2_InvalidContextRejected ==
    (last.call = "SetContext" /\ last.arg \notin DOMAIN last.cfg0.contexts)
    => /\ last.err = "invalid context" /\ last.exit = 1
       /\ last.cfg1.currentContext = last.cfg0.currentContext
       /\ files = last.files0 /\ last.written = {}
       /\ last.env2 = last.env1 /\ termEnv[last.term] = last.env0
       /\ last.exec = "none"

C2_Witness ==
    /\ last.call = "SetContext" /\ last.arg = "zz"
    /\ DOMAIN last.cfg0.contexts = {"a", "b"}
    /\ last.err = "invalid context"

\* C3 (as stated): outside a session, a SetContext or SetNamespace that
\* returns no error has written the configuration to the new file
\* <sessionDir>/config_<time>, set the marker to TRUE and KUBECONFIG to that
\* path, and replaced the process by $SHELL with that environment.
C3_NewSessionReplacesProcess ==
    (last.call # "" /\ ~last.active /\ last.err = "")
    => /\ SessionPath(last.time) \notin DOMAIN last.files0
       /\ last.written = {SessionPath(last.time)}
       /\ files[SessionPath(last.time)].doc = Encode(last.cfg1)
       /\ last.env2.active = Val(TRUE_)
       /\ last.env2.kubeconfig = Val(<<SessionPath(last.time)>>)
       /\ last.exec = "ok"
       /\ termEnv[last.term] = last.env2

\* C4: inside a session, a commit writes only the file KUBECONFIG names
\* (the mutated configuration, when the write succeeds), adds no file to the
\* session directory, changes no environment variable and replaces no
\* process.
C4_ActiveCommitsInPlace ==
    (Committed /\ last.active)
    => LET path == Getenv(last.env1, EnvVarConfig)
       IN  /\ last.exec = "none"
           /\ last.env2 = last.env1 /\ last.env1 = last.env0
           /\ termEnv[last.term] = last.env0
           /\ spawned[last.term] = last.nested
           /\ DOMAIN files = DOMAIN last.files0
           /\ last.err = ""
                => /\ Len(path) = 1 /\ last.written = {path[1]}
                   /\ files[path[1]].doc = Encode(last.cfg1)
                   /\ \A q \in DOMAIN files \ {path[1]} : files[q] = last.files0[q]
           /\ last.err # "" => files = last.files0

C4_Witness ==
    /\ Committed /\ last.active /\ last.err = ""
    /\ last.nested = 1
    /\ last.written = {Getenv(last.env0, EnvVarConfig)[1]}
    /\ files # last.files0

\* C5: in a shell the tool started, every context or namespace invocation
\* sees the session as active, attempts no shell replacement and adds no
\* file to the session directory; no terminal ever holds a shell nested in
\* a session shell.
C5_SessionShellStaysInPlace ==
    /\ \A t \in Terms : spawned[t] <= 1
    /\ (last.cmd \in {"context", "namespace"} /\ last.nested >= 1)
       => /\ last.active
          /\ last.exec = "none"
          /\ SessionEntries(files) \subseteq SessionEntries(last.files0)
          /\ last.written \subseteq Range(Getenv(last.env0, EnvVarConfig))

C5_Witness ==
    /\ last.cmd \in {"context", "namespace"} /\ last.nested = 1
    /\ last.call # "" /\ last.err = "" /\ last.written # {}
    /\ last.cfg1 # last.cfg0

\* C6: SetNamespace(n) with n not in the loaded snapshot fails with the
\* invalid-namespace error, keeps the configuration, writes no file and
\* starts no session.
C6_InvalidNamespaceRejected ==
    (last.call = "SetNamespace" /\ last.arg \notin Range(last.snapshot))
    => /\ last.err = "invalid namespace" /\ last.exit = 1
       /\ last.cfg1 = last.cfg0
       /\ files = last.files0 /\ last.written = {}
       /\ last.exec = "none" /\ last.env2 = last.env1
       /\ termEnv[last.term] = last.env0
       /\ spawned[last.term] = last.nested

C6_Witness ==
    /\ last.call = "SetNamespace" /\ last.arg = "bad"
    /\ last.snapshot # <<>>
    /\ last.err = "invalid namespace"

\* C7 (as stated): after a SetNamespace(n) that returns no error, the
\* context entry keyed by currentContext has namespace n, in memory and in
\* the file written.
C7_NamespaceSetOnCurrent ==
    (last.call = "SetNamespace" /\ last.err = "")
    => /\ last.cfg1.currentContext \in DOMAIN last.cfg1.contexts
       /\ last.cfg1.contexts[last.cfg1.currentContext].namespace = last.arg
       /\ \A p \in last.written :
            LET c == Persisted(p)
            IN  /\ c.currentContext \in DOMAIN c.contexts
                /\ c.contexts[c.currentContext].namespace = last.arg

\* The spellings of the marker that read TRUE when upper-cased.
Affirmative ==
    {<<c1, c2, c3, c4>> : c1 \in {"t", "T"}, c2 \in {"r", "R"},
                          c3 \in {"u", "U"}, c4 \in {"e", "E"}}

\* C8: IsActive() is true exactly when KUBESWITCH_ACTIVE is set to a
\* spelling of TRUE (upper-cased it equals TRUE); unset, empty or any other
\* value reads as inactive; the call leaves files and environment as they
\* were.
C8_IsActiveIffTrue ==
    last.cmd = "IsActive"
    => /\ last.active <=> (last.env0.active.set /\ last.env0.active.val \in Affirmative)
       /\ last.env0.active \in InactiveMarkers => ~last.active
       /\ termEnv[last.term] = last.env0 /\ files = last.files0

C8_Witness ==
    /\ last.cmd = "IsActive"
    /\ last.env0.active = Val(<<"T", "r", "u", "e">>)
    /\ last.active

\* C9: in every configuration the tool has just written, a non-empty
\* currentContext is a key of contexts.
C9_PersistedCurrentContextExists ==
    \A p \in last.written :
        LET c == Persisted(p)
        IN  c.currentContext # "" => c.currentContext \in DOMAIN c.contexts

C9_Witness ==
    /\ last.written # {}
    /\ last.cfg0.currentContext = "ghost"
    /\ last.cfg0.currentContext \notin DOMAIN last.cfg0.contexts

\* C10: Purge(days) removes exactly the session-directory entries last
\* modified strictly before now - days (those whose removal succeeds), and
\* leaves every other file as it was.
C10_PurgeRemovesOlderThanCutoff ==
    last.cmd = "purge"
    => LET cutoff == last.time - last.days * DayTicks
           older == {p \in DOMAIN last.files0 :
                        p[1] = sessionDir /\ last.files0[p].mtime < cutoff}
       IN  /\ last.failed \subseteq older
           /\ DOMAIN last.files0 \ DOMAIN files = older \ last.failed
           /\ DOMAIN files \subseteq DOMAIN last.files0
           /\ \A p \in DOMAIN files : files[p] = last.files0[p]
           /\ \A p \in DOMAIN last.files0 :
                last.files0[p].mtime >= cutoff => p \in DOMAIN files

C10_Witness ==
    /\ last.cmd = "purge" /\ last.days = 1
    /\ last.removed # {} /\ last.failed = {}
    /\ \E p \in SessionEntries(files) :
            files[p].mtime = last.time - last.days * DayTicks

\* C11 (as stated): a Purge(days) run again with the same retention, no file
\* created or modified in between, deletes nothing and leaves the session
\* directory as the first run left it.
C11_PurgeIdempotent ==
    last.again => last.removed = {} /\ files = last.files0

\* C11 (amended): a Purge(days) run again with the same retention, no file
\* created or modified in between, removes only entries that have become
\* older than the cutoff since the first run or that the first run failed to
\* remove, and leaves every other file as the first run left it.
C11_PurgeAgainRemovesNewlyOld ==
    last.again
    => /\ last.prevDelTime <= last.delTime
       /\ \A p \in last.removed :
            \/ p \in last.prevFailed
            \/ /\ last.prevDelTime <= last.files0[p].mtime
               /\ last.files0[p].mtime < last.delTime
       /\ DOMAIN files = DOMAIN last.files0 \ last.removed
       /\ \A p \in DOMAIN files : files[p] = last.files0[p]

C11_Witness ==
    /\ last.again /\ last.prevFailed = {}
    /\ last.removed # {}
    /\ \A p \in last.removed : last.prevDelTime <= last.files0[p].mtime

\* C12: when the removal of an entry fails during Purge, the error is
\* printed and the scan goes on: every other entry older than the cutoff is
\* removed, the failed entry is the only old one left, and the command
\* completes with status 0.
C12_PurgeContinuesAfterFailure ==
    (last.cmd = "purge" /\ last.failed # {})
    => LET older == {p \in SessionEntries(last.files0) :
                        last.files0[p].mtime < last.delTime}
       IN  /\ last.failed \subseteq older
           /\ \A p \in older \ last.failed : p \notin DOMAIN files
           /\ \A p \in last.failed : p \in DOMAIN files
           /\ Len(last.out) = Cardinality(last.failed) + 2
           /\ last.out[Len(last.out)] = "done"
           /\ last.exit = 0 /\ last.err = ""

C12_Witness ==
    /\ last.cmd = "purge"
    /\ \E q \in last.failed : \E p \in last.removed : q[2] < p[2]

\* C14 (as stated): when the replacement of the process by $SHELL fails,
\* the invocation reports it and exits with a status other than 0.
C14_ExecFailureReported ==
    last.exec = "failed" => last.err # "" /\ last.exit # 0

\* C15 (as stated): after a failed replacement nothing outside the process
\* differs from before the invocation: the files (session directory and
\* configuration files) and the shell's environment are as they were.
C15_FailedExecLeavesNoTrace ==
    last.exec = "failed"
    => files = last.files0 /\ termEnv[last.term] = last.env0

\* C15 (amended): a failed replacement leaves the shell's environment and
\* every file that existed as they were; the marker and KUBECONFIG are
\* changed in the invocation's own environment only, and the one thing
\* left outside the process is the session file it wrote before the attempt.
C15_FailedExecLeavesSessionFile ==
    last.exec = "failed"
    => /\ termEnv[last.term] = last.env0
       /\ spawned[last.term] = last.nested
       /\ last.env2.active = Val(TRUE_) /\ last.env2 # last.env0
       /\ \A p \in DOMAIN last.files0 : p \in DOMAIN files /\ files[p] = last.files0[p]
       /\ DOMAIN files \ DOMAIN last.files0 = {SessionPath(last.time)}
       /\ last.written = {SessionPath(last.time)}
       /\ files[SessionPath(last.time)].doc = Encode(last.cfg1)

C15_Witness ==
    /\ last.exec = "failed" /\ last.call = "SetContext"
    /\ SessionPath(last.time) \in DOMAIN files

\* The first and the last of the listed files that exist in fs and define
\* name among their entries of a kind (contexts, clusters or users).
Defining(paths, fs, kind, name) ==
    {i \in 1..Len(paths) :
        paths[i] \in DOMAIN fs /\ name \in DOMAIN Decode(fs[paths[i]].doc)[kind]}

FirstDefining(paths, fs, kind, name) ==
    CHOOSE i \in Defining(paths, fs, kind, name) :
        \A j \in Defining(paths, fs, kind, name) : i <= j

LastDefining(paths, fs, kind, name) ==
    CHOOSE i \in Defining(paths, fs, kind, name) :
        \A j \in Defining(paths, fs, kind, name) : j <= i

\* The entry of a kind that the file at path p holds under name, flattened.
EntryIn(fs, p, kind, name) == FlattenConfig(Decode(fs[p].doc))[kind][name]

Kinds == {"contexts", "clusters", "users"}

C17_KubeEnvVarDeterministic ==
    last.cmd \in {"context", "namespace", "purge"}
    => Cardinality({Getenv(e, EnvVarConfig) :
                     e \in setupKubeEnvVar(last.env0, settings.kubeConfig,
                                           settings.globbed)}) = 1

\* C13 (as stated): an invocation that reads its session's file while
\* another invocation's commit in that session is writing it finds the
\* complete old or the complete new configuration in it, never a part.
C13_NoPartialRead ==
    \A p, w \in Procs :
        (/\ p # w /\ procs[p].shell = procs[w].shell
         /\ procs[w].pc = "writing" /\ IsActive(procs[w].env)
         /\ Getenv(procs[p].env, EnvVarConfig) = <<procs[w].path>>)
        => ~procs[p].torn

\* C18 (as stated): two invocations that start new sessions at the same
\* time write to different session files.
C18_DistinctSessionPaths ==
    \A p, q \in Procs :
        (/\ p # q
         /\ procs[p].pc = "writing" /\ ~IsActive(procs[p].env)
         /\ procs[q].pc = "writing" /\ ~IsActive(procs[q].env))
        => procs[p].path # procs[q].path

\* C19 (as stated): a commit made in a session writes the file the invoking
\* shell's KUBECONFIG names and no other, and that file is not the file of
\* another shell's session.
C19_CommitsOnlyOwnSessionFile ==
    (last.call # "" /\ last.active /\ last.err = "")
    => /\ last.written = Range(Getenv(last.env1, EnvVarConfig))
       /\ \A s \in Shells \ {last.term} :
            IsActive(termEnv[s])
            => last.written \cap Range(Getenv(termEnv[s], EnvVarConfig)) = {}

\* The change a command makes to the configuration it loaded.
OwnChange(cmd, cfg, arg) ==
    IF cmd = "context" THEN [cfg EXCEPT !.currentContext = arg]
    ELSE [cfg EXCEPT !.contexts =
            [n \in DOMAIN cfg.contexts |->
                IF n = cfg.currentContext
                THEN [cfg.contexts[n] EXCEPT !.namespace = arg]
                ELSE cfg.contexts[n]]]

\* No invocation is in the middle of writing the file at path.
Settled(path) ==
    \A w \in Procs : ~(procs[w].pc = "writing" /\ procs[w].path = path)

\* C20: an in-session commit writes back the whole configuration the
\* invocation loaded, with its own change and nothing else, whatever the
\* file held when the write began: what another invocation wrote to the
\* file since the load is discarded.
C20_StaleCopyWrittenBack ==
    (last.call # "" /\ last.active /\ last.err = "")
    => \A path \in last.written :
        Settled(path)
        => files[path].doc = Encode(OwnChange(last.cmd, last.cfg0, last.arg))

\* A set-namespace overlapped a set-context in the same session: both
\* succeeded, and the file holds the namespace and not the context.
C20_Witness ==
    /\ last.cmd = "namespace" /\ last.active /\ last.err = ""
    /\ last.cfg0.currentContext = "a" /\ last.before.currentContext = "b"
    /\ \A path \in last.written :
            /\ Settled(path)
            /\ Persisted(path).currentContext = "a"
            /\ Persisted(path).contexts["a"].namespace = "n1"

\* s is in ascending order (equal neighbours allowed).
Ascending(s) == \A i, j \in 1..Len(s) : i < j => ~StrLess(s[j], s[i])

\* How many times x occurs in s.
Occurrences(s, x) == Cardinality({i \in 1..Len(s) : s[i] = x})

\* C21: ListContexts and ListNamespaces return their names in ascending
\* lexicographic order, and the empty sequence when there is no context,
\* respectively no item.
C21_ListsAscending ==
    /\ last.cmd \in {"ListContexts", "ListNamespaces"} => Ascending(last.out)
    /\ (last.cmd = "ListContexts" /\ DOMAIN last.cfg0.contexts = {})
        => last.out = <<>>
    /\ (last.cmd = "ListNamespaces" /\ last.snapshot = <<>>) => last.out = <<>>

C21_Witness ==
    /\ last.cmd = "ListNamespaces"
    /\ Len(last.snapshot) = 3 /\ ~Ascending(last.snapshot)
    /\ last.snapshot[1] = "bad" /\ last.snapshot[3] = "b"
    /\ last.out[1] = "b"

\* C22: ListContexts returns every key of the contexts exactly once and
\* nothing else; ListNamespaces returns the name of every item of the
\* snapshot, as many times as it is there; the lengths agree.
C22_ListsComplete ==
    /\ last.cmd = "ListContexts"
        => /\ Len(last.out) = Cardinality(DOMAIN last.cfg0.contexts)
           /\ Range(last.out) = DOMAIN last.cfg0.contexts
           /\ \A n \in DOMAIN last.cfg0.contexts : Occurrences(last.out, n) = 1
    /\ last.cmd = "ListNamespaces"
        => /\ Len(last.out) = Len(last.snapshot)
           /\ \A n \in AskedNames :
                Occurrences(last.out, n) = Occurrences(last.snapshot, n)

C22_Witness ==
    /\ last.cmd = "ListContexts"
    /\ Cardinality(DOMAIN last.cfg0.contexts) = 3
    /\ Len(last.out) = 3

\* C23: IsValidContext(n) is true exactly when n is a key of the contexts.
C23_IsValidContextIffKey ==
    last.cmd = "IsValidContext"
    => (last.valid <=> last.arg \in DOMAIN last.cfg0.contexts)

C23_Witness ==
    /\ last.cmd = "IsValidContext" /\ last.valid
    /\ last.arg = "bad" /\ DOMAIN last.cfg0.contexts = {"a", "b", "bad"}

\* C24: IsValidNamespace(n) is true exactly when n is the name of an item
\* of the snapshot.
C24_IsValidNamespaceIffItem ==
    last.cmd = "IsValidNamespace"
    => (last.valid <=> \E i \in 1..Len(last.snapshot) : last.snapshot[i] = last.arg)

C24_Witness ==
    /\ last.cmd = "IsValidNamespace" /\ last.valid
    /\ Len(last.snapshot) = 3 /\ last.snapshot[3] = last.arg
    /\ last.snapshot[1] # last.arg /\ last.snapshot[2] # last.arg

\* The fields of a configuration the tool works with.
Core(cfg) ==
    [contexts |-> cfg.contexts, clusters |-> cfg.clusters, users |-> cfg.users,
     currentContext |-> cfg.currentContext]

C26_OnlyTheSelectionChanges ==
    (last.call # "" /\ last.err = "")
    => \A p \in last.written :
        LET c == Persisted(p)
        IN  /\ c.clusters = last.cfg0.clusters
            /\ c.users = last.cfg0.users
            /\ DOMAIN c.contexts = DOMAIN last.cfg0.contexts
            /\ last.call = "SetContext"
                => /\ c.contexts = last.cfg0.contexts
                   /\ c.currentContext = last.arg
            /\ last.call = "SetNamespace"
                => /\ c.currentContext = last.cfg0.currentContext
                   /\ \A n \in DOMAIN c.contexts :
                        /\ c.contexts[n].cluster = last.cfg0.contexts[n].cluster
                        /\ c.contexts[n].user = last.cfg0.contexts[n].user
                        /\ n # last.cfg0.currentContext
                            => c.contexts[n] = last.cfg0.contexts[n]
                        /\ n = last.cfg0.currentContext
                            => c.contexts[n].namespace = last.arg

C26_Witness ==
    /\ last.call = "SetNamespace" /\ last.err = "" /\ last.written # {}
    /\ last.cfg0.currentContext = "a"
    /\ DOMAIN last.cfg0.contexts = {"a", "b"}
    /\ last.cfg0.contexts["b"].namespace # last.arg
    /\ last.cfg1 # last.cfg0

\* The lines the last invocation printed, on either stream.
Printed == Range(last.out) \cup Range(last.errOut)

\* C27: when the listing of the namespaces fails (the cluster cannot be
\* reached, or no client can be made from the configuration) the namespace
\* command prints the error and exits with status 1 after at most one
\* request; it writes no file, sets no namespace and starts no session.
C27_ListFailureIsFatal ==
    (/\ last.cmd = "namespace" /\ last.loaded
     /\ last.fault = "unreachable" \/ last.err \in {"unreachable", "rest config"})
    => /\ last.err \in {"unreachable", "rest config"}
       /\ last.err \in Printed /\ last.exit = 1
       /\ last.requests <= 1
       /\ last.call = "" /\ last.cfg1 = last.cfg0
       /\ files = last.files0 /\ last.written = {}
       /\ last.exec = "none" /\ last.env2 = last.env1
       /\ termEnv[last.term] = last.env0
       /\ spawned[last.term] = last.nested

C27_Witness ==
    /\ last.cmd = "namespace" /\ last.fault = "unreachable"
    /\ last.err = "unreachable" /\ last.requests = 1
    /\ last.exit = 1

\* C28: when the session directory is absent at the start of a run and
\* cannot be made, the error is printed and the process exits with status
\* 1 before initConfig and the command: nothing is loaded, written or
\* removed; when it is absent and can be made it exists from then on; no
\* command runs without it.
C28_SessionDirOrExit ==
    last.cmd \in {"context", "namespace", "purge"}
    => /\ (~last.dir0 /\ ~last.mkdirOk)
            => /\ last.err = "mkdir" /\ last.out = <<"mkdir">> /\ last.exit = 1
               /\ ~last.loaded /\ last.call = "" /\ ~last.warn
               /\ last.written = {} /\ last.removed = {} /\ last.exec = "none"
               /\ files = last.files0 /\ sessionDir \notin dirs
               /\ termEnv[last.term] = last.env0
       /\ (~last.dir0 /\ last.mkdirOk)
            => /\ sessionDir \in dirs /\ last.err # "mkdir"
       /\ last.err # "mkdir" => sessionDir \in dirs

C28_Witness ==
    /\ last.cmd = "context" /\ last.arg = "b" /\ last.fault = "none"
    /\ ~last.dir0 /\ ~last.mkdirOk
    /\ last.err = "mkdir" /\ last.exit = 1

\* C29 (as stated): every error a command reports is printed on standard
\* error and not on standard output, and the process exits with a status
\* other than 0.
C29_ErrorsOnStderr ==
    last.err # ""
    => /\ last.err \in Range(last.errOut)
       /\ last.err \notin Range(last.out)
       /\ last.exit # 0

NewSession == last.call # "" /\ ~last.active /\ last.written # {}

\* C31: session files are removed by Purge alone.  A context or namespace
\* command, listing included, removes no entry of the session directory; a
\* session started from a shell outside a session adds exactly one entry,
\* its file; an entry that Purge removes was last modified before that
\* Purge's cutoff.
C31_OnlyPurgeRemoves ==
    /\ last.cmd \in {"context", "namespace"}
        => /\ SessionEntries(last.files0) \subseteq SessionEntries(files)
           /\ NewSession
                => /\ SessionPath(last.time) \notin DOMAIN last.files0
                   /\ SessionEntries(files)
                        = SessionEntries(last.files0) \cup {SessionPath(last.time)}
           /\ ~NewSession => SessionEntries(files) = SessionEntries(last.files0)
    /\ last.cmd = "purge"
        => \A p \in SessionEntries(last.files0) \ SessionEntries(files) :
                last.files0[p].mtime < last.delTime

\* Files of sessions that never got their shell pile up next to the older one.
C31_Witness ==
    /\ last.cmd \in {"context", "namespace"} /\ NewSession
    /\ Cardinality(SessionEntries(files)) = 3
    /\ SessionPath(0) \in DOMAIN files
    /\ \E t \in 1..MaxTime : t < last.time /\ SessionPath(t) \in DOMAIN files

\* C32: in the new-session branch the file is written, then the variables
\* are set, then the shell is started.  A shell that was started finds the
\* whole configuration in the file its KUBECONFIG names; when the write
\* fails the marker and KUBECONFIG are as they were and no replacement of
\* the process is attempted; a replacement is attempted only with both
\* variables set and the file written.
C32_WriteThenEnvThenExec ==
    (last.call # "" /\ ~last.active /\ last.err # "invalid context"
        /\ last.err # "invalid namespace")
    => /\ last.err # ""
            => /\ last.env2 = last.env1 /\ last.exec = "none"
               /\ termEnv[last.term] = last.env0
               /\ spawned[last.term] = last.nested
               /\ files = last.files0
       /\ last.exec # "none"
            => /\ last.err = ""
               /\ last.env2.active = Val(TRUE_)
               /\ last.env2.kubeconfig = Val(<<SessionPath(last.time)>>)
               /\ SessionPath(last.time) \in DOMAIN files
               /\ files[SessionPath(last.time)].doc = Encode(last.cfg1)
       /\ last.exec = "ok"
            => /\ termEnv[last.term] = last.env2
               /\ \A p \in Range(Getenv(termEnv[last.term], EnvVarConfig)) :
                    p \in DOMAIN files /\ files[p].doc = Encode(last.cfg1)

C32_Witness ==
    /\ last.call = "SetContext" /\ ~last.active
    /\ last.fault = "unwritable" /\ last.err = "write"
    /\ last.cfg1.currentContext = "b" /\ last.cfg0.currentContext = "a"

\* The files the sessions of the terminals name.
LiveFiles ==
    UNION {Range(Getenv(termEnv[t], EnvVarConfig)) :
            t \in {x \in Terms : IsActive(termEnv[x]) /\ spawned[x] >= 1}}

\* C33: Purge goes by the modification time alone: the file a running
\* session names is removed like any other once it was last written before
\* the cutoff (and its removal does not fail), and the session is left
\* naming a file that is not there.
C33_PurgeIgnoresLiveness ==
    last.cmd = "purge"
    => \A p \in LiveFiles \cap SessionEntries(last.files0) :
        (last.files0[p].mtime < last.delTime /\ p \notin last.failed)
        => p \notin DOMAIN files /\ p \in last.removed

C33_Witness ==
    /\ last.cmd = "purge"
    /\ IsActive(termEnv[last.term]) /\ spawned[last.term] = 1
    /\ \E p \in LiveFiles : p \in last.removed /\ p \notin DOMAIN files

\* The configuration files an invocation in environment env loads from.
Sources(env) == Range(LoadingPrecedence(env)) \cup {DefaultConfig, OtherConfig}

\* C34: outside a session a successful SetContext or SetNamespace writes
\* the new session file and no other: the default config and the files
\* KUBECONFIG lists are as they were.
C34_SourcesUntouched ==
    (last.call # "" /\ ~last.active /\ last.err = "")
    => /\ last.written = {SessionPath(last.time)}
       /\ SessionPath(last.time) \notin Sources(last.env1) \cup Sources(last.env0)
       /\ \A p \in DOMAIN last.files0 : p \in DOMAIN files /\ files[p] = last.files0[p]

C34_Witness ==
    /\ last.call = "SetNamespace" /\ ~last.active /\ last.err = ""
    /\ Getenv(last.env0, EnvVarConfig) = <<DefaultConfig, OtherConfig>>
    /\ last.cfg1 # last.cfg0
    /\ Decode(files[DefaultConfig].doc) # last.cfg1

\* C35: in a session start-up leaves KUBECONFIG (and the rest of the
\* environment) as it found it, and a command in a session the tool
\* started loads the session file alone; outside a session KUBECONFIG is
\* set to a list of exactly the kubeConfig setting, the prior KUBECONFIG
\* and the files the patterns match.
C35_SessionKeepsKubeconfig ==
    (last.cmd \in {"context", "namespace", "purge"} /\ last.mkdirOk)
    => /\ last.active
            => /\ last.env1 = last.env0
               /\ (last.nested >= 1 /\ last.loaded)
                    => \E t \in 1..MaxTime :
                        /\ Getenv(last.env1, EnvVarConfig) = <<SessionPath(t)>>
                        /\ last.cfg0
                            = IF SessionPath(t) \in DOMAIN last.files0
                              THEN FlattenConfig(Decode(last.files0[SessionPath(t)].doc))
                              ELSE NewConfig
       /\ ~last.active
            => /\ last.env1.kubeconfig.set
               /\ Range(Getenv(last.env1, EnvVarConfig)) \ {NoPath}
                    = (Range(settings.kubeConfig)
                       \cup Range(Getenv(last.env0, EnvVarConfig))
                       \cup UNION {Range(g) : g \in Range(settings.globbed)})
                      \ {NoPath}
               /\ last.env1.active = last.env0.active
               /\ last.env1.shell = last.env0.shell

C35_Witness ==
    /\ last.cmd = "context" /\ last.active /\ last.nested = 1 /\ last.loaded
    /\ settings.kubeConfig = <<OtherConfig>>
    /\ Getenv(last.env1, EnvVarConfig) = <<SessionPath(1)>>
    /\ last.call = "SetContext" /\ last.err = ""

\* C36: in a session a namespace set for a context outlasts the context
\* switches that follow.  Whatever invocations came after the latest
\* successful SetNamespace(n) made with context c current in the session of
\* file p, one after the other, the file, while it is there, holds
\* namespace n for c.
C36_NamespaceSurvivesSwitches ==
    \A k \in last.kept :
        k[1] \in DOMAIN files
        => /\ k[2] \in DOMAIN Persisted(k[1]).contexts
           /\ Persisted(k[1]).contexts[k[2]].namespace = k[3]

\* SetNamespace(n1) under a, SetContext(b), then SetContext(a).
C36_Witness ==
    /\ last.call = "SetContext" /\ last.active /\ last.err = ""
    /\ last.arg = "a" /\ last.cfg0.currentContext = "b"
    /\ \E p \in last.written :
        /\ <<p, "a", "n1">> \in last.kept
        /\ Persisted(p).currentContext = "a"
        /\ Persisted(p).contexts["a"].namespace = "n1"
        /\ last.files0[p].doc # files[p].doc

====
